---- MODULE Spec2Model ----
(***************************************************************************)
(* Model of codeswitch/claude.py: the regex based database/schema          *)
(* extraction, the textual cleanup, the extraction of the fenced SQL block *)
(* from the model reply, and main's sequential conversion loop.            *)
(*                                                                         *)
(* Texts are sequences of one-character strings.  Regular expressions are  *)
(* syntax trees interpreted by a backtracking matcher that follows the     *)
(* priorities of Python's re module (leftmost match, greedy quantifiers,   *)
(* alternatives tried left to right).                                      *)
(***************************************************************************)
EXTENDS Integers, Sequences, FiniteSets, TLC

(***************************************************************************)
(* Characters                                                              *)
(***************************************************************************)
UpperChars == <<"A","B","C","D","E","F","G","H","I","J","K","L","M",
                "N","O","P","Q","R","S","T","U","V","W","X","Y","Z">>
LowerChars == <<"a","b","c","d","e","f","g","h","i","j","k","l","m",
                "n","o","p","q","r","s","t","u","v","w","x","y","z">>
Digits == {"0","1","2","3","4","5","6","7","8","9"}

UpperSet == {UpperChars[k] : k \in 1..26}
LowerSet == {LowerChars[k] : k \in 1..26}
LowerOf  == [c \in UpperSet |-> LowerChars[CHOOSE k \in 1..26 : UpperChars[k] = c]]

\* str.lower() on one character; also the case folding of re.IGNORECASE
ToLower(c) == IF c \in UpperSet THEN LowerOf[c] ELSE c

\* str.lower()
lower(s) == [k \in 1..Len(s) |-> ToLower(s[k])]

\* \s
Space == {" ", "\n", "\t"}

\* \w
WordChars == UpperSet \cup LowerSet \cup Digits \cup {"_"}
IsWordChar(c) == c \in WordChars

\* str.strip()
RECURSIVE lstrip(_)
lstrip(s) == IF s # <<>> /\ Head(s) \in Space THEN lstrip(Tail(s)) ELSE s

RECURSIVE rstrip(_)
rstrip(s) ==
    IF s # <<>> /\ s[Len(s)] \in Space THEN rstrip(SubSeq(s, 1, Len(s) - 1)) ELSE s

strip(s) == rstrip(lstrip(s))

(***************************************************************************)
(* Regular expression syntax trees                                         *)
(***************************************************************************)
Chr(c)    == [t |-> "chr", c |-> c]
InSet(S)  == [t |-> "set", neg |-> FALSE, s |-> S]
NotSet(S) == [t |-> "set", neg |-> TRUE, s |-> S]
Cat(rs)   == [t |-> "cat", rs |-> rs]
Alt(rs)   == [t |-> "alt", rs |-> rs]
\* cls* and cls+ for a character class cls (every quantifier of the
\* program's patterns is a greedy one over a character class)
Star(cls) == [t |-> "rep", min |-> 0, neg |-> cls.neg, s |-> cls.s]
Plus(cls) == [t |-> "rep", min |-> 1, neg |-> cls.neg, s |-> cls.s]
Opt(r)    == [t |-> "opt", r |-> r]
Grp(n, r) == [t |-> "grp", n |-> n, r |-> r]
GrpEnd(n, st) == [t |-> "end", n |-> n, st |-> st]
WordB     == [t |-> "wb"]
Eos       == [t |-> "eos"]
\* a literal word, compared under re.IGNORECASE
Lit(w)    == [t |-> "lit", w |-> w]

\* number of capturing groups the matcher keeps
NGroups == 5
NoGroups == [n \in 1..NGroups |-> <<0, 0>>]
NoMatch == [ok |-> FALSE, st |-> 0, e |-> 0, g |-> NoGroups]

\* \b at position i (between s[i-1] and s[i])
AtWordB(s, i) ==
    LET before == i > 1 /\ IsWordChar(s[i - 1])
        after  == i <= Len(s) /\ IsWordChar(s[i])
    IN before # after

\* $ without re.MULTILINE: the end of the text, or just before a final newline
AtEos(s, i) == i = Len(s) + 1 \/ (i = Len(s) /\ s[i] = "\n")

\* the word w stands at position i of s, case ignored
LitAt(w, s, i) ==
    /\ i + Len(w) - 1 <= Len(s)
    /\ \A k \in 1..Len(w) : ToLower(s[i + k - 1]) = ToLower(w[k])

\* the length of the longest run of characters of the class from position i
RECURSIVE RunLen(_, _, _)
RunLen(r, s, i) ==
    IF i <= Len(s) /\ ((s[i] \in r.s) # r.neg) THEN 1 + RunLen(r, s, i + 1) ELSE 0

(***************************************************************************)
(* The matcher.  todo is the sequence of expressions still to be matched   *)
(* from position i on (the continuation); the result is the first          *)
(* successful match in backtracking order, or NoMatch.                     *)
(***************************************************************************)
RECURSIVE MatchAt(_, _, _, _)
RECURSIVE MatchRep(_, _, _, _, _, _)
MatchAt(todo, s, i, g) ==
    IF todo = <<>> THEN [ok |-> TRUE, st |-> 0, e |-> i, g |-> g]
    ELSE
    LET r    == Head(todo)
        rest == Tail(todo)
    IN CASE r.t = "chr" ->
              IF i <= Len(s) /\ ToLower(s[i]) = ToLower(r.c)
              THEN MatchAt(rest, s, i + 1, g) ELSE NoMatch
         [] r.t = "lit" ->
              IF LitAt(r.w, s, i)
              THEN MatchAt(rest, s, i + Len(r.w), g) ELSE NoMatch
         [] r.t = "set" ->
              IF i <= Len(s) /\ ((s[i] \in r.s) # r.neg)
              THEN MatchAt(rest, s, i + 1, g) ELSE NoMatch
         [] r.t = "rep" -> MatchRep(r.min, RunLen(r, s, i), rest, s, i, g)
         [] r.t = "cat" -> MatchAt(r.rs \o rest, s, i, g)
         [] r.t = "alt" ->
              IF r.rs = <<>> THEN NoMatch
              ELSE LET x == MatchAt(<<Head(r.rs)>> \o rest, s, i, g)
                   IN IF x.ok THEN x
                      ELSE MatchAt(<<Alt(Tail(r.rs))>> \o rest, s, i, g)
         [] r.t = "opt" ->
              LET x == MatchAt(<<r.r>> \o rest, s, i, g)
              IN IF x.ok THEN x ELSE MatchAt(rest, s, i, g)
         [] r.t = "grp" -> MatchAt(<<r.r, GrpEnd(r.n, i)>> \o rest, s, i, g)
         [] r.t = "end" ->
              MatchAt(rest, s, i, [g EXCEPT ![r.n] = <<r.st, i>>])
         [] r.t = "wb" -> IF AtWordB(s, i) THEN MatchAt(rest, s, i, g) ELSE NoMatch
         [] r.t = "eos" -> IF AtEos(s, i) THEN MatchAt(rest, s, i, g) ELSE NoMatch

\* a greedy repetition: the longest run first, then one character less, down
\* to min characters
MatchRep(min, k, rest, s, i, g) ==
    IF k < min THEN NoMatch
    ELSE LET x == MatchAt(rest, s, i + k, g)
         IN IF x.ok THEN x ELSE MatchRep(min, k - 1, rest, s, i, g)

\* a match of a pattern that begins with a literal word can only start where
\* the first letter of the word stands (a shortcut; it rules out no match)
CanStart(re, s, i) ==
    (re.t = "cat" /\ Head(re.rs).t = "lit") =>
        (i <= Len(s) /\ ToLower(s[i]) = ToLower(Head(re.rs).w[1]))

\* Pattern.search(s, pos): the leftmost match starting at or after from
search(re, s, from) ==
    LET starts == {i \in from..(Len(s) + 1) :
                      CanStart(re, s, i) /\ MatchAt(<<re>>, s, i, NoGroups).ok}
    IN IF starts = {} THEN NoMatch
       ELSE LET st == CHOOSE i \in starts : \A j \in starts : i <= j
            IN [MatchAt(<<re>>, s, st, NoGroups) EXCEPT !.st = st]

\* Match.group(n): the text of group n, None when the group did not take part
None == <<"None">>
group(s, m, n) ==
    IF m.g[n] = <<0, 0>> THEN None ELSE SubSeq(s, m.g[n][1], m.g[n][2] - 1)

\* the text a template uses for group n: an unmatched group is empty
groupOrEmpty(s, m, n) == IF m.g[n] = <<0, 0>> THEN <<>> ELSE group(s, m, n)

(***************************************************************************)
(* Words of the patterns                                                   *)
(***************************************************************************)
wUSE         == <<"U","S","E">>
wCREATE      == <<"C","R","E","A","T","E">>
wPROCEDURE   == <<"P","R","O","C","E","D","U","R","E">>
wTABLE       == <<"T","A","B","L","E">>
wFUNCTION    == <<"F","U","N","C","T","I","O","N">>
wSET         == <<"S","E","T">>
wsearch_path == <<"s","e","a","r","c","h","_","p","a","t","h">>
wTO          == <<"T","O">>
dbo          == <<"d","b","o">>
public       == <<"p","u","b","l","i","c">>

(***************************************************************************)
(* extract_database_schema                                                 *)
(***************************************************************************)
\* r"USE\s+\[?(?P<database>[^\]\s;]+)\]?\s*;"        group 1 = database
use_db_pattern ==
    Cat(<<Lit(wUSE), Plus(InSet(Space)), Opt(Chr("[")),
          Grp(1, Plus(NotSet({"]", ";"} \cup Space))),
          Opt(Chr("]")), Star(InSet(Space)), Chr(";")>>)

\* r"CREATE\s+(?:PROCEDURE|TABLE)\s+(?:\[(?P<schema>[^\]\.;]+)\]|\b(?P<schema2>[^\.\s;]+)\b)
\*   \.(?:\[(?P<object>[^\]\s;]+)\]|(?P<object2>[^\s;(\[]+))\s*(?:[(\[]|$)"
\* groups: 1 = schema, 2 = schema2, 3 = object, 4 = object2
create_pattern ==
    Cat(<<Lit(wCREATE), Plus(InSet(Space)),
          Alt(<<Lit(wPROCEDURE), Lit(wTABLE)>>), Plus(InSet(Space)),
          Alt(<<Cat(<<Chr("["), Grp(1, Plus(NotSet({"]", ".", ";"}))), Chr("]")>>),
                Cat(<<WordB, Grp(2, Plus(NotSet({".", ";"} \cup Space))), WordB>>)>>),
          Chr("."),
          Alt(<<Cat(<<Chr("["), Grp(3, Plus(NotSet({"]", ";"} \cup Space))), Chr("]")>>),
                Grp(4, Plus(NotSet({";", "(", "["} \cup Space)))>>),
          Star(InSet(Space)),
          Alt(<<InSet({"(", "["}), Eos>>)>>)

\* r"CREATE\s+(?:TABLE|PROCEDURE|FUNCTION)\s+(?:\"?(?P<schema>[^\"\.;]+)\"?|\b(?P<schema2>[^\.\s;]+)\b)
\*   \.(?:\"?(?P<object>[^\"\s;]+)\"?|\b(?P<object2>[^\s;(\[]+)\b)\s*(?:[(\[]|$)"
\* groups: 1 = schema, 2 = schema2, 3 = object, 4 = object2
oracle_schema_pattern ==
    Cat(<<Lit(wCREATE), Plus(InSet(Space)),
          Alt(<<Lit(wTABLE), Lit(wPROCEDURE), Lit(wFUNCTION)>>), Plus(InSet(Space)),
          Alt(<<Cat(<<Opt(Chr("\"")), Grp(1, Plus(NotSet({"\"", ".", ";"}))), Opt(Chr("\""))>>),
                Cat(<<WordB, Grp(2, Plus(NotSet({".", ";"} \cup Space))), WordB>>)>>),
          Chr("."),
          Alt(<<Cat(<<Opt(Chr("\"")), Grp(3, Plus(NotSet({"\"", ";"} \cup Space))), Opt(Chr("\""))>>),
                Cat(<<WordB, Grp(4, Plus(NotSet({";", "(", "["} \cup Space))), WordB>>)>>),
          Star(InSet(Space)),
          Alt(<<InSet({"(", "["}), Eos>>)>>)

\* search_path_pattern with a class that lets the name run over commas
search_path_pattern_nocomma ==
    Cat(<<Lit(wSET), Plus(InSet(Space)), Lit(wsearch_path), Plus(InSet(Space)),
          Lit(wTO), Plus(InSet(Space)),
          Grp(1, Plus(NotSet({";"}))),
          Star(InSet(Space)), InSet({",", ";"})>>)

\* r"SET\s+search_path\s+TO\s+(?P<schema>[^,;]+)\s*[,;]"      group 1 = schema
search_path_pattern ==
    Cat(<<Lit(wSET), Plus(InSet(Space)), Lit(wsearch_path), Plus(InSet(Space)),
          Lit(wTO), Plus(InSet(Space)),
          Grp(1, Plus(NotSet({",", ";"}))),
          Star(InSet(Space)), InSet({",", ";"})>>)

\* r"CREATE\s+(?:TABLE|FUNCTION|PROCEDURE)\s+(?:(?P<schema>[^\.;]+)\.)?(?P<object>[^\s;(\[]+)\s*(?:[(\[]|$)"
\* groups: 1 = schema, 2 = object
pg_schema_pattern ==
    Cat(<<Lit(wCREATE), Plus(InSet(Space)),
          Alt(<<Lit(wTABLE), Lit(wFUNCTION), Lit(wPROCEDURE)>>), Plus(InSet(Space)),
          Opt(Cat(<<Grp(1, Plus(NotSet({".", ";"}))), Chr(".")>>)),
          Grp(2, Plus(NotSet({";", "(", "["} \cup Space))),
          Star(InSet(Space)),
          Alt(<<InSet({"(", "["}), Eos>>)>>)

\* Python truthiness of an optional text: None and "" are false
Truthy(v) == v # None /\ v # <<>>

\* x or y
OrElse(x, y) == IF Truthy(x) THEN x ELSE y

SourceTypes == {"MSSQL", "Oracle", "PostgreSQL"}

\* lines 27-34: database and schema from the two matches of the MSSQL branch;
\* exc tells that a step raised (None has no strip())
mssql_result(sql_code, use_db_match, create_match) ==
    LET database == IF use_db_match.ok
                    THEN strip(group(sql_code, use_db_match, 1)) ELSE None
        picked == OrElse(group(sql_code, create_match, 1),
                         group(sql_code, create_match, 2))
    IN IF create_match.ok /\ picked = None
       THEN [exc |-> TRUE, database |-> database, schema |-> None]
       ELSE [exc |-> FALSE, database |-> database,
             schema |-> IF create_match.ok THEN strip(picked) ELSE dbo]

\* lines 41-43: the Oracle branch uses the schema as the database too
oracle_result(sql_code, schema_match) ==
    LET picked == OrElse(group(sql_code, schema_match, 1),
                         group(sql_code, schema_match, 2))
    IN IF schema_match.ok /\ picked = None
       THEN [exc |-> TRUE, database |-> None, schema |-> None]
       ELSE LET schema == IF schema_match.ok THEN strip(picked) ELSE None
            IN [exc |-> FALSE, database |-> schema, schema |-> schema]

\* lines 47-56: the search_path clause first, then the CREATE statement, then
\* "public"
pg_result(sql_code, search_path_match, schema_match) ==
    LET schema1 == IF search_path_match.ok
                   THEN strip(group(sql_code, search_path_match, 1)) ELSE None
        schema2 == IF schema_match.ok /\ Truthy(group(sql_code, schema_match, 1))
                   THEN strip(group(sql_code, schema_match, 1)) ELSE public
    IN [exc |-> FALSE, database |-> None,
        schema |-> IF ~Truthy(schema1) THEN schema2 ELSE schema1]

\* a step of the try block raised: Pattern.search raises TypeError for an
\* argument that is not a text (None)
search_raises == [exc |-> TRUE, database |-> None, schema |-> None]

\* The try block of extract_database_schema (lines 25-59).
extract_try(sql_code, source_type) ==
    IF source_type = "MSSQL" THEN
        IF sql_code = None THEN search_raises
        ELSE mssql_result(sql_code, search(use_db_pattern, sql_code, 1),
                          search(create_pattern, sql_code, 1))
    ELSE IF source_type = "Oracle" THEN
        IF sql_code = None THEN search_raises
        ELSE oracle_result(sql_code, search(oracle_schema_pattern, sql_code, 1))
    ELSE IF source_type = "PostgreSQL" THEN
        IF sql_code = None THEN search_raises
        ELSE pg_result(sql_code, search(search_path_pattern, sql_code, 1),
                       search(pg_schema_pattern, sql_code, 1))
    ELSE [exc |-> FALSE, database |-> None, schema |-> None]

\* the result of a call that lets an exception escape
Raised == <<"raise">>

\* a try block without an except clause
no_except_clause(r) == IF r.exc THEN Raised ELSE <<r.database, r.schema>>

\* the except clause (lines 60-63) turns every exception of the try block
\* into (None, None) and a warning
except_clause(r) ==
    IF r.exc THEN [ret |-> <<None, None>>, msgs |-> <<"warning">>]
    ELSE [ret |-> <<r.database, r.schema>>, msgs |-> <<>>]

\* extract_database_schema without its except clause
extract_database_schema_propagating(sql_code, source_type) ==
    no_except_clause(extract_try(sql_code, source_type))

\* a call of extract_database_schema: what it returns and what it shows to the
\* user
extract_call(sql_code, source_type) == except_clause(extract_try(sql_code, source_type))

\* extract_database_schema(sql_code, source_type): the pair (database, schema)
extract_database_schema(sql_code, source_type) == extract_call(sql_code, source_type).ret

(***************************************************************************)
(* re.sub                                                                  *)
(***************************************************************************)
\* a replacement template is a sequence of literal texts and group references
TLit(w) == [k |-> "lit", w |-> w, n |-> 0]
TRef(n) == [k |-> "ref", w |-> <<>>, n |-> n]

\* Match.expand(template): a group that did not take part expands to ""
RECURSIVE expand(_, _, _)
expand(tmpl, s, m) ==
    IF tmpl = <<>> THEN <<>>
    ELSE (IF Head(tmpl).k = "lit" THEN Head(tmpl).w
          ELSE groupOrEmpty(s, m, Head(tmpl).n)) \o expand(Tail(tmpl), s, m)

\* re.sub(re, tmpl, s) from position pos on: every non-overlapping match,
\* leftmost first, is replaced (no pattern of the program matches "")
RECURSIVE subFrom(_, _, _, _)
replaceMatch(re, tmpl, s, pos, m) ==
    IF ~m.ok \/ m.e = m.st THEN SubSeq(s, pos, Len(s))
    ELSE SubSeq(s, pos, m.st - 1) \o expand(tmpl, s, m) \o subFrom(re, tmpl, s, m.e)

subFrom(re, tmpl, s, pos) == replaceMatch(re, tmpl, s, pos, search(re, s, pos))

sub(re, tmpl, s) == subFrom(re, tmpl, s, 1)

\* str.replace(c, "") for a single character c
RECURSIVE remove(_, _)
remove(s, c) ==
    IF s = <<>> THEN <<>>
    ELSE (IF Head(s) = c THEN <<>> ELSE <<Head(s)>>) \o remove(Tail(s), c)

(***************************************************************************)
(* convert_code: the extraction of the fenced block from the reply         *)
(***************************************************************************)
\* the backquote character; a TLA+ string cannot hold it, "~" stands for it
BQ == "~"
\* "```sql" and "```"
fence_sql == <<BQ, BQ, BQ, "s", "q", "l">>
fence     == <<BQ, BQ, BQ>>
continue_with == <<"c","o","n","t","i","n","u","e"," ","w","i","t","h">>
incomplete    == <<"i","n","c","o","m","p","l","e","t","e">>
not_supported == <<"n","o","t"," ","s","u","p","p","o","r","t","e","d">>
phrases == {continue_with, incomplete, not_supported}

\* sub is at the 0-based index k of s
OccursAt(w, s, k) ==
    /\ k + Len(w) <= Len(s)
    /\ \A j \in 1..Len(w) : s[k + j] = w[j]

\* str.find(w, start): the lowest 0-based index >= start where w occurs, or -1
find(w, s, start) ==
    LET ks == {k \in start..Len(s) : k >= 0 /\ OccursAt(w, s, k)}
    IN IF ks = {} THEN -1 ELSE CHOOSE k \in ks : \A k2 \in ks : k <= k2

\* w in s
contains(s, w) == find(w, s, 0) # -1

\* s[a:b] for 0 <= a
slice(s, a, b) == SubSeq(s, a + 1, b)

\* the reply of client.messages.create when the call raises
APIError == <<"APIError">>

\* convert_code looking for the closing fence from start_index, not start_index + 6
convert_code_no_skip(response) ==
    IF response = APIError THEN [code |-> None, msgs |-> <<"error">>]
    ELSE
    LET response_text == response
        start_index == find(fence_sql, response_text, 0)
        end_index   == find(fence, response_text, start_index)
    IN IF start_index # -1 /\ end_index # -1
       THEN LET sql_code_block == strip(slice(response_text, start_index + 6, end_index))
            IN IF \E phrase \in phrases : contains(lower(sql_code_block), phrase)
               THEN [code |-> None, msgs |-> <<"warning">>]
               ELSE [code |-> sql_code_block, msgs |-> <<>>]
       ELSE [code |-> None, msgs |-> <<"warning">>]

\* convert_code (lines 100-123) for a reply of the API: the converted code,
\* or None, and what is shown to the user
convert_code(response) ==
    IF response = APIError THEN [code |-> None, msgs |-> <<"error">>]
    ELSE
    LET response_text == response
        start_index == find(fence_sql, response_text, 0)
        end_index   == find(fence, response_text, start_index + 6)
    IN IF start_index # -1 /\ end_index # -1
       THEN LET sql_code_block == strip(slice(response_text, start_index + 6, end_index))
            IN IF \E phrase \in phrases : contains(lower(sql_code_block), phrase)
               THEN [code |-> None, msgs |-> <<"warning">>]
               ELSE [code |-> sql_code_block, msgs |-> <<>>]
       ELSE [code |-> None, msgs |-> <<"warning">>]

(***************************************************************************)
(* process_sql_code                                                        *)
(***************************************************************************)
\* r"USE\s+\[?[^\]\s;]+\]?\s*;"
use_sub_pattern ==
    Cat(<<Lit(wUSE), Plus(InSet(Space)), Opt(Chr("[")),
          Plus(NotSet({"]", ";"} \cup Space)),
          Opt(Chr("]")), Star(InSet(Space)), Chr(";")>>)

\* r"CREATE\s+(TABLE|PROCEDURE|FUNCTION)\s+(?:\[(?P<schema>[^\]\.;]+)\]|\b(?P<schema2>[^\.\s;]+)\b)
\*   \.(?:\[(?P<object>[^\]\s;]+)\]|(?P<object2>[^\s;(\[]+))\s*(?:[(\[]|$)"
\* groups: 1 = the kind, 2 = schema, 3 = schema2, 4 = object, 5 = object2
create_sub_pattern ==
    Cat(<<Lit(wCREATE), Plus(InSet(Space)),
          Grp(1, Alt(<<Lit(wTABLE), Lit(wPROCEDURE), Lit(wFUNCTION)>>)), Plus(InSet(Space)),
          Alt(<<Cat(<<Chr("["), Grp(2, Plus(NotSet({"]", ".", ";"}))), Chr("]")>>),
                Cat(<<WordB, Grp(3, Plus(NotSet({".", ";"} \cup Space))), WordB>>)>>),
          Chr("."),
          Alt(<<Cat(<<Chr("["), Grp(4, Plus(NotSet({"]", ";"} \cup Space))), Chr("]")>>),
                Grp(5, Plus(NotSet({";", "(", "["} \cup Space)))>>),
          Star(InSet(Space)),
          Alt(<<InSet({"(", "["}), Eos>>)>>)

\* r"CREATE \1 \2\4"
create_sub_template ==
    <<TLit(wCREATE \o <<" ">>), TRef(1), TLit(<<" ">>), TRef(2), TRef(4)>>

\* lines 128-131: the text that process_sql_code passes to convert_code
cleanup(sql_code) ==
    LET cleaned1 == sub(use_sub_pattern, <<>>, sql_code)
        cleaned2 == sub(create_sub_pattern, create_sub_template, cleaned1)
    IN remove(remove(cleaned2, "["), "]")

\* the except clause of process_sql_code (lines 134-136)
process_failed(ex) ==
    [converted_code |-> None, database |-> None, schema |-> None,
     sent |-> <<>>, msgs |-> ex.msgs \o <<"error">>]

\* line 133: the converted code with the extracted database and schema
process_returns(ex, cleaned_sql, conv) ==
    [converted_code |-> conv.code, database |-> ex.ret[1], schema |-> ex.ret[2],
     sent |-> <<cleaned_sql>>, msgs |-> ex.msgs \o conv.msgs]

\* process_sql_code giving up when the extraction found nothing
process_blocking(sql_code, response, ex) ==
    IF sql_code = None \/ ex.ret = <<None, None>> THEN process_failed(ex)
    ELSE process_returns(ex, cleanup(sql_code), convert_code(response))

process_sql_code_blocking(sql_code, source_type, response) ==
    process_blocking(sql_code, response, extract_call(sql_code, source_type))

\* the try block after the extraction (lines 128-133).  A sql_code that is
\* not a text makes re.sub raise, which the except clause reports.
process_try(sql_code, response, ex) ==
    IF sql_code = None THEN process_failed(ex)
    ELSE process_returns(ex, cleanup(sql_code), convert_code(response))

\* process_sql_code (lines 125-136) for a reply of the API.  sent is the
\* sequence of texts passed to convert_code, one per call.
process_sql_code(sql_code, source_type, response) ==
    process_try(sql_code, response, extract_call(sql_code, source_type))

(***************************************************************************)
(* create_zip_file and the loop body of main                               *)
(***************************************************************************)
\* os.path.basename: what follows the last "/"
basename(name) ==
    LET ks == {k \in 1..Len(name) : name[k] = "/"}
    IN IF ks = {} THEN name
       ELSE SubSeq(name, (CHOOSE k \in ks : \A k2 \in ks : k2 <= k) + 1, Len(name))

\* create_zip_file: ZipFile.writestr adds one member per pair, in order; a
\* name that is already in the archive is added again
create_zip_file(converted_files) ==
    [k \in 1..Len(converted_files) |->
        [filename |-> converted_files[k][1], data |-> converted_files[k][2]]]

\* the loop body dropping the earlier outputs when a file has no output
append_converted_dropping(converted_files, file_name, converted_code) ==
    IF Truthy(converted_code)
    THEN Append(converted_files, <<basename(file_name), converted_code>>)
    ELSE <<>>

\* lines 174-175: if converted_code: converted_files.append((basename, converted_code))
append_converted(converted_files, file_name, converted_code) ==
    IF Truthy(converted_code)
    THEN Append(converted_files, <<basename(file_name), converted_code>>)
    ELSE converted_files

(***************************************************************************)
(* Bounds and input texts                                                  *)
(***************************************************************************)
MaxIdLen  == 2      \* longest identifier of the generated SQL texts
MaxSpaces == 1      \* longest run of white space between two words
MaxFiles  == 2      \* most files uploaded in one batch
MaxRuns   == 2      \* most calls of process_sql_code on one text

SeqsUpTo(S, n) == UNION {[1..k -> S] : k \in 1..n}
Idents == SeqsUpTo({"a", "Z"}, MaxIdLen)
Gaps   == SeqsUpTo({" ", "\n"}, MaxSpaces)

\* an identifier, in brackets or not
Br(id, br) == IF br THEN <<"[">> \o id \o <<"]">> ELSE id

objName == <<"t", "1">>
FixedSchemas == {<<"h", "r">>, <<"Z">>}

\* USE [D]; CREATE PROCEDURE|TABLE [S.]O <tail>
MssqlTails == {<<>>, <<"(">>, <<" ", "(">>, <<" ", "A", "S">>, <<"\n", "@", "p">>}
MssqlForms ==
    [fam : {"mssql"}, D : Idents, dbr : BOOLEAN, kind : {wPROCEDURE, wTABLE},
     S : {None} \cup FixedSchemas, sbr : BOOLEAN, obr : BOOLEAN, tail : MssqlTails]
MssqlText(f) ==
    wUSE \o <<" ">> \o Br(f.D, f.dbr) \o <<";", " ">> \o wCREATE \o <<" ">> \o f.kind
    \o <<" ">> \o (IF f.S = None THEN <<>> ELSE Br(f.S, f.sbr) \o <<".">>)
    \o Br(objName, f.obr) \o f.tail

\* <pre> SET search_path TO <name>[, more]; <post>
stmtQualified   == wCREATE \o <<" ">> \o wTABLE \o <<" ", "h", "r", ".">> \o objName
                   \o <<"(", "x", ")", ";">>
stmtUnqualified == wCREATE \o <<" ">> \o wTABLE \o <<" ">> \o objName \o <<"(", "x", ")", ";">>
otherPath       == wSET \o <<" ">> \o wsearch_path \o <<" ">> \o wTO \o <<" ", "q", ";">>
PgSetForms ==
    [fam : {"pg_set"}, name : Idents, gap : Gaps,
     more : {<<>>, <<",", "b">>, <<" ", ",", " ", "b">>},
     pre : {<<>>, stmtQualified, stmtUnqualified},
     post : {<<>>, stmtQualified, stmtUnqualified, otherPath}]
PgSetText(f) ==
    f.pre \o wSET \o f.gap \o wsearch_path \o <<" ">> \o wTO \o f.gap \o f.name
    \o f.more \o <<";">> \o f.post

\* CREATE TABLE|FUNCTION|PROCEDURE [S.]O <tail>, or no statement at all
PgTails == {<<>>, <<"(">>, <<" ", "(">>, <<" ", "A", "S">>, <<";">>,
            <<"(", "x", " ", "r", ".", "u", "(">>}
PgCreateForms ==
    [fam : {"pg_create"}, stmt : BOOLEAN, gap : Gaps,
     kind : {wTABLE, wFUNCTION, wPROCEDURE},
     S : {None} \cup Idents, tail : PgTails]
PgCreateText(f) ==
    IF f.stmt
    THEN wCREATE \o f.gap \o f.kind \o f.gap
         \o (IF f.S = None THEN <<>> ELSE f.S \o <<".">>) \o objName \o f.tail
    ELSE <<"S", "E", "L", "E", "C", "T">> \o f.gap \o (IF f.S = None THEN <<"1">> ELSE f.S)
         \o f.tail

\* an argument that is not a text
NoTextForm == [fam |-> "none"]

ExtractForms == MssqlForms \cup PgSetForms \cup PgCreateForms \cup {NoTextForm}
TextOf(f) ==
    CASE f.fam = "mssql"     -> MssqlText(f)
      [] f.fam = "pg_set"    -> PgSetText(f)
      [] f.fam = "pg_create" -> PgCreateText(f)
      [] f.fam = "none"      -> None

(***************************************************************************)
(* State                                                                   *)
(***************************************************************************)
VARIABLES
    uploaded_files,   \* st.file_uploader: the sequence of [name, data]
    source_type,      \* st.selectbox("Source Database")
    pc,               \* where the script stands
    i,                \* number of files the loop has processed
    converted_files,  \* main's list of (file name, converted code)
    log,              \* per processed file or call: what was sent, received, shown
    download,         \* whether st.download_button was called, and its archive
    form,             \* the shape of the text a function is called with
    arg,              \* the argument of the function under test
    result            \* its result

vars == <<uploaded_files, source_type, pc, i, converted_files, log, download,
          form, arg, result>>

\* st.download_button was not called
NoDownload == [offered |-> FALSE, zip_file |-> <<>>]

\* the values of the variables a specification does not use
MainIdle == /\ uploaded_files = <<>> /\ i = 0 /\ converted_files = <<>>
            /\ download = NoDownload
FnIdle   == /\ form = NoTextForm /\ arg = None /\ result = None

(***************************************************************************)
(* extract_database_schema as a function under test                        *)
(***************************************************************************)
InitExtract ==
    /\ MainIdle
    /\ log = <<>>
    /\ form \in ExtractForms
    /\ arg = TextOf(form)
    /\ source_type \in SourceTypes \cup {"Other"}
    /\ result = None
    /\ pc = "call"

CallExtract ==
    /\ pc = "call"
    /\ result' = extract_database_schema(arg, source_type)
    /\ pc' = "return"
    /\ UNCHANGED <<uploaded_files, source_type, i, converted_files, log, download,
                   form, arg>>

NextExtract == CallExtract
SpecExtract == InitExtract /\ [][NextExtract]_vars

(***************************************************************************)
(* The cleanup of process_sql_code as a function under test                *)
(***************************************************************************)
\* [USE d;] CREATE <kind> S.O <gap>(x i)
CleanForms ==
    [fam : {"clean"}, use : {"no", "plain", "bracket"},
     kind : {wTABLE, wPROCEDURE, wFUNCTION},
     S : Idents, sbr : BOOLEAN, obr : BOOLEAN, gap : {<<>>} \cup Gaps]
CleanText(f) ==
    (CASE f.use = "no" -> <<>>
       [] f.use = "plain" -> wUSE \o <<" ", "d", ";", "\n">>
       [] f.use = "bracket" -> wUSE \o <<" ", "[", "d", "]", ";", "\n">>)
    \o wCREATE \o <<" ">> \o f.kind \o <<" ">> \o Br(f.S, f.sbr) \o <<".">>
    \o Br(objName, f.obr) \o f.gap \o <<"(", "x", " ", "i", ")">>

InitCleanup ==
    /\ MainIdle
    /\ log = <<>>
    /\ form \in CleanForms
    /\ arg = CleanText(form)
    /\ source_type = "MSSQL"
    /\ result = None
    /\ pc = "call"

CallCleanup ==
    /\ pc = "call"
    /\ result' = cleanup(arg)
    /\ pc' = "return"
    /\ UNCHANGED <<uploaded_files, source_type, i, converted_files, log, download,
                   form, arg>>

NextCleanup == CallCleanup
SpecCleanup == InitCleanup /\ [][NextCleanup]_vars

(***************************************************************************)
(* convert_code's extraction as a function under test                      *)
(***************************************************************************)
INCOMPLETE    == <<"I","N","C","O","M","P","L","E","T","E">>
Not_Supported == <<"N","o","t"," ","S","u","p","p","o","r","t","e","d">>
secondBlock   == <<" ">> \o fence_sql \o <<" ", "z">> \o fence

\* <pre>[```sql]<pad><body><phrase><pad>[```][ ```sql z```]
ReplyForms ==
    {f \in [fam : {"reply"}, pre : {<<>>, <<"o", "k", " ">>, fence \o <<" ">>},
            open : BOOLEAN, close : BOOLEAN,
            body : {<<>>} \cup Idents, pad : {<<>>} \cup Gaps,
            phrase : {<<>>, incomplete, INCOMPLETE, Not_Supported, continue_with},
            second : BOOLEAN] :
        f.second => (f.open /\ f.close)}
ReplyText(f) ==
    f.pre \o (IF f.open THEN fence_sql ELSE <<>>) \o f.pad \o f.body \o f.phrase
    \o f.pad \o (IF f.close THEN fence ELSE <<>>)
    \o (IF f.second THEN secondBlock ELSE <<>>)

InitConvert ==
    /\ MainIdle
    /\ log = <<>>
    /\ form \in ReplyForms
    /\ arg = ReplyText(form)
    /\ source_type = "MSSQL"
    /\ result = None
    /\ pc = "call"

CallConvert ==
    /\ pc = "call"
    /\ result' = convert_code(arg).code
    /\ pc' = "return"
    /\ UNCHANGED <<uploaded_files, source_type, i, converted_files, log, download,
                   form, arg>>

NextConvert == CallConvert
SpecConvert == InitConvert /\ [][NextConvert]_vars

(***************************************************************************)
(* Replies of the API used by the state machines                           *)
(***************************************************************************)
replyNoFence    == <<"s", "o", "r", "r", "y">>
replyCodeX      == fence_sql \o <<"\n", "x", "\n">> \o fence
replyCodeY      == <<"o", "k", " ">> \o fence_sql \o <<"\n", "y", "\n">> \o fence
replyIncomplete == fence_sql \o <<"\n">> \o incomplete \o <<"\n">> \o fence
replyEmptyBlock == fence_sql \o <<"\n">> \o fence

(***************************************************************************)
(* process_sql_code called several times on one text                       *)
(***************************************************************************)
textNoMatch == <<"S", "E", "L", "E", "C", "T", " ", "1">>
ProcessForms ==
    {f \in MssqlForms : /\ f.D = <<"a">> /\ f.dbr /\ f.kind = wTABLE
                        /\ ~f.sbr /\ ~f.obr /\ f.tail \in {<<"(">>, <<" ", "A", "S">>}}
    \cup {f \in PgCreateForms : /\ f.gap = <<" ">> /\ f.kind = wTABLE
                                /\ f.S \in {None, <<"a">>} /\ f.tail = <<"(">>}
ProcessReplies == {APIError, replyNoFence, replyCodeX}

InitProcess ==
    /\ MainIdle
    /\ log = <<>>
    /\ form \in ProcessForms
    /\ arg = TextOf(form)
    /\ source_type = "MSSQL"
    /\ result = None
    /\ pc = "call"

CallProcess ==
    /\ pc = "call"
    /\ Len(log) < MaxRuns
    /\ \E st \in SourceTypes, response \in ProcessReplies :
          \E r \in {process_sql_code(arg, st, response)} :
             /\ log' = Append(log, [source_type |-> st, response |-> response,
                                    sent |-> r.sent, converted_code |-> r.converted_code,
                                    database |-> r.database, schema |-> r.schema,
                                    msgs |-> r.msgs])
             /\ source_type' = st
             /\ result' = r.converted_code
    /\ UNCHANGED <<uploaded_files, pc, i, converted_files, download, form, arg>>

NextProcess == CallProcess
SpecProcess == InitProcess /\ [][NextProcess]_vars

(***************************************************************************)
(* main: upload, select, and the conversion loop                           *)
(***************************************************************************)
FileNames == {<<"a", ".", "s", "q", "l">>, <<"b", ".", "s", "q", "l">>}
textMatch == wUSE \o <<" ", "[", "d", "]", ";", "\n">> \o wCREATE \o <<" ">> \o wTABLE
             \o <<" ", "h", "r", ".">> \o objName \o <<" ", "(", "x", " ", "i", ")">>
FileTexts == {textMatch, textNoMatch}
Files == [name : FileNames, data : FileTexts]
Replies == {APIError, replyNoFence, replyCodeX, replyCodeY, replyIncomplete,
            replyEmptyBlock}

Init ==
    /\ uploaded_files = <<>>
    /\ source_type = "MSSQL"
    /\ pc = "idle"
    /\ i = 0
    /\ converted_files = <<>>
    /\ log = <<>>
    /\ download = NoDownload
    /\ FnIdle

\* st.file_uploader: the user adds a file
Upload(f) ==
    /\ pc = "idle"
    /\ Len(uploaded_files) < MaxFiles
    /\ uploaded_files' = Append(uploaded_files, f)
    /\ UNCHANGED <<source_type, pc, i, converted_files, log, download, form, arg, result>>

\* st.selectbox("Source Database", ...)
SelectSource(st) ==
    /\ pc = "idle"
    /\ st # source_type
    /\ source_type' = st
    /\ UNCHANGED <<uploaded_files, pc, i, converted_files, log, download, form, arg, result>>

\* st.button("Convert") up to the loop (lines 161-168)
Convert ==
    /\ pc = "idle"
    /\ IF uploaded_files = <<>>
       THEN /\ pc' = "warned"
            /\ UNCHANGED <<converted_files, i>>
       ELSE /\ pc' = "loop"
            /\ converted_files' = <<>>
            /\ i' = 0
    /\ UNCHANGED <<uploaded_files, source_type, log, download, form, arg, result>>

\* one iteration of the loop (lines 170-181) for a reply of the API, and,
\* after the last file, the lines that follow the loop (182-185)
ProcessFile(response) ==
    /\ pc = "loop"
    /\ i < Len(uploaded_files)
    /\ \E uploaded_file \in {uploaded_files[i + 1]} :
       \E sql_code \in {uploaded_file.data} :
       \E r \in {process_sql_code(sql_code, source_type, response)} :
       \E cf \in {append_converted(converted_files, uploaded_file.name, r.converted_code)} :
          /\ converted_files' = cf
          /\ log' = Append(log, [name |-> uploaded_file.name, sql_code |-> sql_code,
                                 source_type |-> source_type, response |-> response,
                                 sent |-> r.sent, converted_code |-> r.converted_code,
                                 database |-> r.database, schema |-> r.schema,
                                 msgs |-> r.msgs,
                                 appended |-> Len(cf) > Len(converted_files)])
          /\ i' = i + 1
          /\ IF i + 1 = Len(uploaded_files)
             THEN /\ pc' = "done"
                  /\ download' = IF cf # <<>>
                                 THEN [offered |-> TRUE, zip_file |-> create_zip_file(cf)]
                                 ELSE NoDownload
             ELSE /\ pc' = "loop"
                  /\ UNCHANGED download
    /\ UNCHANGED <<uploaded_files, source_type, form, arg, result>>

Next ==
    \/ \E f \in Files : Upload(f)
    \/ \E st \in SourceTypes : SelectSource(st)
    \/ Convert
    \/ \E response \in Replies : ProcessFile(response)

Spec == Init /\ [][Next]_vars

(***************************************************************************)
(* Properties of extract_database_schema (SpecExtract)                     *)
(***************************************************************************)
\* C2: extract_database_schema never lets an exception escape: when a step
\* of the matching raises it returns (None, None), otherwise it returns a
\* pair (database, schema) of texts or None.
C2_ExtractNeverRaises ==
    pc = "return" =>
        /\ result # Raised
        /\ Len(result) = 2
        /\ extract_try(arg, source_type).exc => result = <<None, None>>

\* a call whose matching raised (the argument is not a text) has returned
C2_Witness ==
    /\ pc = "return" /\ form.fam = "none" /\ source_type = "MSSQL"
    /\ extract_try(arg, source_type).exc
    /\ result = <<None, None>>

\* C3: for MSSQL text "USE [D]; CREATE PROCEDURE|TABLE S.O <anything>" the
\* result is (D, S), and the schema is "dbo" only when the CREATE statement
\* has no qualifier.
C3_MssqlUseCreate ==
    (pc = "return" /\ source_type = "MSSQL" /\ form.fam = "mssql") =>
        result = <<form.D, IF form.S = None THEN dbo ELSE form.S>>

\* C6: for PostgreSQL text with a "SET search_path TO <name>[, ...];" clause
\* the result is (None, <name>), the first name of the first clause, whether
\* a CREATE statement stands before or after the clause.
C6_SearchPathPreferred ==
    (pc = "return" /\ source_type = "PostgreSQL" /\ form.fam = "pg_set") =>
        result = <<None, form.name>>

\* a qualified CREATE statement stands before a clause that lists two names
C6_Witness ==
    /\ pc = "return" /\ source_type = "PostgreSQL" /\ form.fam = "pg_set"
    /\ form.pre = stmtQualified /\ form.more # <<>> /\ form.post = otherPath
    /\ result = <<None, form.name>>

\* C7: for PostgreSQL text without a search_path clause the result is
\* (None, S) when the first CREATE statement names a qualified object S.O and
\* (None, "public") when it names an unqualified object or there is no
\* CREATE statement.
C7_PgCreateFallback ==
    (pc = "return" /\ source_type = "PostgreSQL" /\ form.fam = "pg_create") =>
        result = <<None, IF form.stmt /\ form.S # None THEN form.S ELSE public>>

(***************************************************************************)
(* Properties of the cleanup (SpecCleanup)                                 *)
(***************************************************************************)
\* C4: the cleaned text of "CREATE <kind> S.O (" still holds
\* "CREATE <kind> O" followed by "(", holds no qualifier "S." and no USE
\* statement.
C4_CleanupStripsQualifiersOnly ==
    (pc = "return" /\ form.fam = "clean") =>
        /\ \E g \in {<<>>} \cup Gaps :
              contains(result, wCREATE \o <<" ">> \o form.kind \o <<" ">> \o objName
                               \o g \o <<"(">>)
        /\ ~contains(result, form.S \o <<".">>)
        /\ ~contains(result, wUSE)

(***************************************************************************)
(* Properties of convert_code (SpecConvert)                                *)
(***************************************************************************)
\* C5: for every reply, the result is the trimmed text between the first
\* "```sql" and the next "```" when both are there, and None otherwise.
C5_FencedBlock ==
    (pc = "return" /\ form.fam = "reply") =>
        result = IF form.open /\ form.close THEN form.body \o form.phrase ELSE None

\* C5 as amended: the same, except that the result is None as well when the
\* trimmed text holds, in any letter case, one of the phrases
\* "continue with", "incomplete", "not supported".
C5_FencedBlockUnlessPhrase ==
    (pc = "return" /\ form.fam = "reply") =>
        result = IF form.open /\ form.close /\ form.phrase = <<>> THEN form.body ELSE None

\* a plain fence stands before the first "```sql", a second block follows,
\* and the padded text of the first block came out trimmed
C5_Witness ==
    /\ pc = "return" /\ form.fam = "reply"
    /\ form.open /\ form.close /\ form.second /\ form.pre = fence \o <<" ">>
    /\ form.pad # <<>> /\ form.body # <<>> /\ form.phrase = <<>>
    /\ result = form.body

(***************************************************************************)
(* Properties of process_sql_code (SpecProcess)                            *)
(***************************************************************************)
\* C10: every call of process_sql_code calls convert_code exactly once, and
\* two calls on the same text that get the same reply send the same text and
\* return the same converted code, whatever the extraction returned.
C10_ExtractionForLoggingOnly ==
    \A r1, r2 \in 1..Len(log) :
        /\ Len(log[r1].sent) = 1
        /\ log[r1].response = log[r2].response =>
              /\ log[r1].sent = log[r2].sent
              /\ log[r1].converted_code = log[r2].converted_code

\* two converting calls, one whose extraction returned (None, None) and one
\* whose extraction returned names
C10_Witness ==
    \E r1, r2 \in 1..Len(log) :
        /\ log[r1].response = replyCodeX /\ log[r2].response = replyCodeX
        /\ log[r1].database = None /\ log[r1].schema = None
        /\ log[r2].database # None /\ log[r2].schema # None
        /\ log[r1].converted_code = <<"x">> /\ log[r2].converted_code = <<"x">>

(***************************************************************************)
(* Properties of main's loop (Spec)                                        *)
(***************************************************************************)
\* the per-file outcomes, told from the file and the reply alone
ApiFailed(e)          == e.response = APIError
MissingFence(e)       == e.response = replyNoFence
IncompletePhrase(e)   == e.response = replyIncomplete
ExtractionMismatch(e) == e.sql_code = textNoMatch
ConversionFailed(e)   == ApiFailed(e) \/ MissingFence(e) \/ IncompletePhrase(e)
Succeeded(e)          == e.response \in {replyCodeX, replyCodeY}

\* the code a reply holds
CodeOf(response) ==
    CASE response = replyCodeX -> <<"x">>
      [] response = replyCodeY -> <<"y">>
      [] OTHER -> <<>>

\* the output entries of the processed files, each from its own file alone
RECURSIVE EntriesOf(_)
EntriesOf(l) ==
    IF l = <<>> THEN <<>>
    ELSE (IF Head(l).appended THEN <<<<Head(l).name, CodeOf(Head(l).response)>>>> ELSE <<>>)
         \o EntriesOf(Tail(l))

\* C1: the loop processes every file whatever the outcomes; a file with a
\* listed failure (extraction mismatch, API error, no code fence, incomplete
\* phrase) has no output entry, and the entries of the other files are what
\* they would be without it.
C1_FailuresSkipOnlyTheirFile ==
    pc = "done" =>
        /\ Len(log) = Len(uploaded_files)
        /\ \A j \in 1..Len(log) :
              /\ (ConversionFailed(log[j]) \/ ExtractionMismatch(log[j]))
                    => ~log[j].appended
              /\ (Succeeded(log[j]) /\ ~ExtractionMismatch(log[j])) => log[j].appended
        /\ converted_files = EntriesOf(log)

\* C1 as amended: the same for the failures of the conversion (API error, no
\* code fence, incomplete phrase); an extraction mismatch alone does not take
\* the file's entry away.
C1_ConversionFailuresSkipOnlyTheirFile ==
    pc = "done" =>
        /\ Len(log) = Len(uploaded_files)
        /\ \A j \in 1..Len(log) :
              /\ ConversionFailed(log[j]) => ~log[j].appended
              /\ Succeeded(log[j]) => log[j].appended
        /\ converted_files = EntriesOf(log)

\* a converted file, then a file whose reply has no fence: the entry of the
\* first file is still there
C1_Witness ==
    /\ pc = "done" /\ Len(log) = 2
    /\ log[1].response = replyCodeY /\ MissingFence(log[2])
    /\ converted_files = <<<<log[1].name, <<"y">>>>>>

\* C8: when the loop is over, the archive is offered exactly if some file
\* produced output, and it maps file names to converted texts: one member per
\* file with output, in upload order, and no two members with the same name.
C8_ZipMapsNamesToTexts ==
    pc = "done" =>
        /\ download.offered <=> (\E j \in 1..Len(log) : log[j].appended)
        /\ download.offered =>
              /\ download.zip_file = [k \in 1..Len(EntriesOf(log)) |->
                                        [filename |-> EntriesOf(log)[k][1],
                                         data |-> EntriesOf(log)[k][2]]]
              /\ \A a, b \in 1..Len(download.zip_file) :
                    a # b => download.zip_file[a].filename # download.zip_file[b].filename

\* C9: a file that ends without an output entry was reported by a warning or
\* an error message while it was processed.
C9_SkippedFilesAreReported ==
    \A j \in 1..Len(log) : ~log[j].appended => log[j].msgs # <<>>

====
